---------------------------- MODULE Spec2Model ----------------------------
(***************************************************************************)
(* Estimate vs Bill comparison tool (src/app.py).                          *)
(*                                                                         *)
(* Text is modelled character by character: a line is a sequence of       *)
(* one-character strings, and the regular expressions of the extractors   *)
(* are evaluated on those characters.  Amounts are integers counting      *)
(* thousandths of a currency unit (the patterns admit at most three       *)
(* fractional digits, so the float comparisons of the code are exact on   *)
(* them).  A DataFrame is the sequence of its rows, the empty DataFrame    *)
(* is the empty sequence.                                                  *)
(***************************************************************************)
EXTENDS Integers, Sequences, FiniteSets, TLC

VARIABLES
    pc,                 \* position of the run
    doc,                \* the document of the call under study (its pages' texts)
    doc_type,           \* doc_type of the call under study
    parts,              \* records returned by the call under study
    raw_text,           \* raw text returned by the call under study
    estimate_file,      \* uploaded estimate: <<>> for None, else <<document>>
    bill_file,          \* uploaded bill: <<>> for None, else <<document>>
    estimate_df,        \* main's estimate_df
    bill_df,            \* main's bill_df
    estimate_raw_text,  \* st.session_state.estimate_raw_text
    bill_raw_text,      \* st.session_state.bill_raw_text
    comparison_result,  \* main's comparison_result (the four buckets)
    temp_files,         \* temporary files present on disk
    open_docs,          \* document handles that are open
    messages,           \* st.error / st.warning / st.info / st.success calls
    displayed,          \* frames handed to st.dataframe in the result tabs
    exported            \* sheets written by create_excel_download

vars == <<pc, doc, doc_type, parts, raw_text, estimate_file, bill_file, estimate_df,
          bill_df, estimate_raw_text, bill_raw_text, comparison_result,
          temp_files, open_docs, messages, displayed, exported>>

\* Python's None and pandas' NaN where an amount is expected: amounts are never
\* negative, so -1 stands for "no number".
NaN == -1

\* pandas' NaN in a Description column.
NaNText == <<"NaN">>

(***************************************************************************)
(* Characters                                                              *)
(***************************************************************************)
DigitChars == <<"0", "1", "2", "3", "4", "5", "6", "7", "8", "9">>

UpperChars == <<"A", "B", "C", "D", "E", "F", "G", "H", "I", "J", "K", "L", "M",
                "N", "O", "P", "Q", "R", "S", "T", "U", "V", "W", "X", "Y", "Z">>

LowerChars == <<"a", "b", "c", "d", "e", "f", "g", "h", "i", "j", "k", "l", "m",
                "n", "o", "p", "q", "r", "s", "t", "u", "v", "w", "x", "y", "z">>

Range(s) == {s[i] : i \in 1..Len(s)}

DigitSet == Range(DigitChars)

UpperSet == Range(UpperChars)

\* \d
IsDigit(c) == c \in DigitSet

\* \s
IsSpace(c) == c = " "

\* [\d,]
IsNumChar(c) == IsDigit(c) \/ c = ","

\* [A-Z0-9\-]
IsPartChar(c) == c \in UpperSet \/ IsDigit(c) \/ c = "-"

DigitVal(c) == (CHOOSE i \in 1..10 : DigitChars[i] = c) - 1

\* str.lower() on one character
Lower(c) ==
    IF c \in UpperSet
    THEN LowerChars[CHOOSE i \in 1..26 : UpperChars[i] = c]
    ELSE c

(***************************************************************************)
(* Strings                                                                 *)
(***************************************************************************)
Min(S) == CHOOSE x \in S : \A y \in S : x <= y

Max(S) == CHOOSE x \in S : \A y \in S : x >= y

\* First index >= p whose character is not a space (Len(s)+1 when none).
RECURSIVE SkipSpaces(_, _)
SkipSpaces(s, p) ==
    IF p <= Len(s) /\ IsSpace(s[p]) THEN SkipSpaces(s, p + 1) ELSE p

\* First index >= p whose character is not a digit.
RECURSIVE SkipDigits(_, _)
SkipDigits(s, p) ==
    IF p <= Len(s) /\ IsDigit(s[p]) THEN SkipDigits(s, p + 1) ELSE p

\* First index >= p whose character is not in [\d,].
RECURSIVE SkipNumChars(_, _)
SkipNumChars(s, p) ==
    IF p <= Len(s) /\ IsNumChar(s[p]) THEN SkipNumChars(s, p + 1) ELSE p

\* First index >= p whose character is not in [A-Z0-9\-].
RECURSIVE SkipPartChars(_, _)
SkipPartChars(s, p) ==
    IF p <= Len(s) /\ IsPartChar(s[p]) THEN SkipPartChars(s, p + 1) ELSE p

\* Last index <= p whose character is not a space (0 when none).
RECURSIVE SkipSpacesBack(_, _)
SkipSpacesBack(s, p) ==
    IF p >= 1 /\ IsSpace(s[p]) THEN SkipSpacesBack(s, p - 1) ELSE p

\* str.strip()
Strip(s) == SubSeq(s, SkipSpaces(s, 1), SkipSpacesBack(s, Len(s)))

\* s[p:].startswith(lit)
StartsWithAt(s, p, lit) ==
    /\ p + Len(lit) - 1 <= Len(s)
    /\ \A i \in 1..Len(lit) : s[p + i - 1] = lit[i]

\* Tokens joined by single spaces.
RECURSIVE Join(_)
Join(toks) ==
    IF toks = <<>> THEN <<>>
    ELSE IF Len(toks) = 1 THEN toks[1]
    ELSE toks[1] \o <<" ">> \o Join(Tail(toks))

NewLine == "\n"

\* text.split('\n'): the pieces between the line breaks, empty pieces included.
SplitLines(text) ==
    LET breaks == {i \in 1..Len(text) : text[i] = NewLine}
        starts == {1} \cup {i + 1 : i \in breaks}
        StartOf(n) == CHOOSE b \in starts : Cardinality({c \in starts : c < b}) = n - 1
        EndOf(b) == Min({i \in breaks : i >= b} \cup {Len(text) + 1}) - 1
    IN  [n \in 1..Cardinality(starts) |-> SubSeq(text, StartOf(n), EndOf(StartOf(n)))]

\* '\n'.join(ls)
RECURSIVE JoinLines(_)
JoinLines(ls) ==
    IF ls = <<>> THEN <<>>
    ELSE IF Len(ls) = 1 THEN ls[1]
    ELSE ls[1] \o <<NewLine>> \o JoinLines(Tail(ls))

(***************************************************************************)
(* safe_float_convert                                                      *)
(***************************************************************************)
\* Value of a digit string read as a decimal integer.
RECURSIVE DigitsValue(_)
DigitsValue(s) ==
    IF s = <<>> THEN 0
    ELSE 10 * DigitsValue(SubSeq(s, 1, Len(s) - 1)) + DigitVal(s[Len(s)])

\* float() of "<digits>" or "<digits>.<digits>" with at most three fractional
\* digits, in thousandths; NaN (None) where float() raises ValueError.
FloatOf(s) ==
    LET dot == IF \E i \in 1..Len(s) : s[i] = "."
               THEN CHOOSE i \in 1..Len(s) : s[i] = "." /\ \A j \in 1..(i - 1) : s[j] # "."
               ELSE Len(s) + 1
        ip == SubSeq(s, 1, dot - 1)
        fp == SubSeq(s, dot + 1, Len(s))
        scale == IF Len(fp) = 0 THEN 1000
                 ELSE IF Len(fp) = 1 THEN 100
                 ELSE IF Len(fp) = 2 THEN 10 ELSE 1
    IN  IF \/ \E i \in 1..Len(ip) : ~IsDigit(ip[i])
           \/ \E i \in 1..Len(fp) : ~IsDigit(fp[i])
           \/ Len(ip) + Len(fp) = 0
           \/ Len(fp) > 3
        THEN NaN
        ELSE 1000 * DigitsValue(ip) + scale * DigitsValue(fp)

safe_float_convert(value) ==
    FloatOf(SelectSeq(value, LAMBDA c : c # ","))

(***************************************************************************)
(* Regular expressions of the extractors                                   *)
(***************************************************************************)
NoMatch == [matched |-> FALSE]

\* line_pattern.search(line): ^\s*\d+\s+(?P<part_number>[A-Z0-9\-]+)\s+(?P<rest_of_line>.*)
\* Each greedy run must be followed by white space, so no shorter run matches.
line_pattern(line) ==
    LET s0 == SkipSpaces(line, 1)
        s1 == SkipDigits(line, s0)
        p0 == SkipSpaces(line, s1)
        p1 == SkipPartChars(line, p0)
        r0 == SkipSpaces(line, p1)
    IN  IF /\ s1 > s0
           /\ p0 > s1
           /\ p1 > p0
           /\ r0 > p1
        THEN [matched |-> TRUE,
              part_number |-> SubSeq(line, p0, p1 - 1),
              rest_of_line |-> SubSeq(line, r0, Len(line))]
        ELSE NoMatch

\* [\d,]+\.\d{2,3} matched at p and followed by \s+ : the index after the white
\* space, 0 when there is no match.  The fraction is the whole digit run, which
\* must count two or three digits for white space to follow it.
DecimalThenSpace(s, p) ==
    LET q == SkipNumChars(s, p)
        e == SkipDigits(s, q + 1)
        n == SkipSpaces(s, e)
    IN  IF /\ q > p
           /\ q <= Len(s)
           /\ s[q] = "."
           /\ e - (q + 1) \in {2, 3}
           /\ n > e
        THEN n ELSE 0

\* \d+ matched at p and followed by \s+ : the index after the white space, 0
\* when there is no match.
IntegerThenSpace(s, p) ==
    LET e == SkipDigits(s, p)
        n == SkipSpaces(s, e)
    IN  IF e > p /\ n > e THEN n ELSE 0

\* (?:[\d,]+\.\d{2,3}|\d+)\s+ at p.  The two alternatives exclude each other:
\* the first needs a "." after the run of [\d,], the second white space.
OrElse(first, second) == IF first # 0 THEN first ELSE second

NumberThenSpace(s, p) == OrElse(DecimalThenSpace(s, p), IntegerThenSpace(s, p))

\* The next item of a pattern, at the index a the items before it have
\* reached; 0 once an item has failed to match.
ThenDecimal(s, a) == IF a = 0 THEN 0 ELSE DecimalThenSpace(s, a)

ThenNumber(s, a) == IF a = 0 THEN 0 ELSE NumberThenSpace(s, a)

\* [\d,]+\.\d{2,3} matched at p with nothing required after it: the index
\* after the match (greedy: three fraction digits when there are three), 0
\* when there is no match.
DecimalEnd(s, p) ==
    LET q == SkipNumChars(s, p)
        e == SkipDigits(s, q + 1)
        k == e - (q + 1)
    IN  IF q > p /\ q <= Len(s) /\ s[q] = "." /\ k >= 2
        THEN q + 1 + (IF k >= 3 THEN 3 ELSE 2)
        ELSE 0

\* The bill's amount_pattern matched at p: Rate, Qty, Tax Paid Amount, then the
\* Taxable Amount captured as group 'amount'.
\* a3 is where the Taxable Amount begins, a4 the index after it.
BillAmountGroup(s, a3, a4) ==
    IF a4 = 0 THEN NoMatch
    ELSE [matched |-> TRUE, amount |-> SubSeq(s, a3, a4 - 1)]

BillAmountFrom(s, a3) ==
    BillAmountGroup(s, a3, IF a3 = 0 THEN 0 ELSE DecimalEnd(s, a3))

BillAmountAt(s, p) ==
    BillAmountFrom(s, ThenDecimal(s, ThenDecimal(s, DecimalThenSpace(s, p))))

ReplaceLit == <<"R", "e", "p", "l", "a", "c", "e">>

RepairAllowLit == <<"R", "e", "p", "a", "i", "r", " ", "A", "l", "l", "o", "w">>

\* The estimate's amount_pattern matched at p: MRP, Depreciation %, Quantity
\* Total, Claimed Value, then the Approved Amount captured as group 'amount',
\* white space and the service type.
\* a4 is where the Approved Amount begins, a5 the index after the white space
\* that follows it.
EstimateAmountGroup(s, a4, a5) ==
    IF a5 # 0 /\ (StartsWithAt(s, a5, ReplaceLit) \/ StartsWithAt(s, a5, RepairAllowLit))
    THEN [matched |-> TRUE, amount |-> SubSeq(s, a4, SkipSpacesBack(s, a5 - 1))]
    ELSE NoMatch

EstimateAmountFrom(s, a4) == EstimateAmountGroup(s, a4, ThenNumber(s, a4))

EstimateAmountAt(s, p) ==
    EstimateAmountFrom(s, ThenNumber(s, ThenNumber(s, ThenNumber(s, NumberThenSpace(s, p)))))

\* pattern.search(s): the match at the leftmost position that has one.  Both
\* patterns begin with a character of [\d,].
SearchBill(s) ==
    LET hits == {p \in 1..Len(s) : IsNumChar(s[p]) /\ BillAmountAt(s, p).matched}
    IN  IF hits = {} THEN NoMatch ELSE BillAmountAt(s, Min(hits))

SearchEstimate(s) ==
    LET hits == {p \in 1..Len(s) : IsNumChar(s[p]) /\ EstimateAmountAt(s, p).matched}
    IN  IF hits = {} THEN NoMatch ELSE EstimateAmountAt(s, Min(hits))

bill_amount_pattern(rest_of_line) == SearchBill(rest_of_line)

estimate_amount_pattern(rest_of_line) == SearchEstimate(rest_of_line)

\* re.search(r"[\d,]+\.?\d*", rest_of_line).start(): the first character that
\* is a digit or a comma; 0 when the search finds nothing.
first_num_start(rest_of_line) ==
    IF \E i \in 1..Len(rest_of_line) : IsNumChar(rest_of_line[i])
    THEN CHOOSE i \in 1..Len(rest_of_line) :
            /\ IsNumChar(rest_of_line[i])
            /\ \A j \in 1..(i - 1) : ~IsNumChar(rest_of_line[j])
    ELSE 0

(***************************************************************************)
(* extract_from_bill_pdf, extract_from_estimate_pdf                        *)
(***************************************************************************)
\* The body of the loop over the lines: the records one line appends (none or
\* one).  amount_pattern is the extractor's own pattern applied to the line's
\* rest_of_line.
RecordsOfLine(line, amount_match) ==
    LET line_match == line_pattern(line)
        rest_of_line == Strip(line_match.rest_of_line)
        start == first_num_start(rest_of_line)
    IN  IF line_match.matched /\ amount_match.matched /\ start # 0
        THEN << [PartNumber |-> line_match.part_number,
                 Description |-> Strip(SubSeq(rest_of_line, 1, start - 1)),
                 Amount |-> safe_float_convert(amount_match.amount)] >>
        ELSE <<>>

BillRecordsOfLine(line) ==
    LET line_match == line_pattern(line)
    IN  RecordsOfLine(line,
            IF line_match.matched
            THEN bill_amount_pattern(Strip(line_match.rest_of_line))
            ELSE NoMatch)

EstimateRecordsOfLine(line) ==
    LET line_match == line_pattern(line)
    IN  RecordsOfLine(line,
            IF line_match.matched
            THEN estimate_amount_pattern(Strip(line_match.rest_of_line))
            ELSE NoMatch)

\* The inner loop, over the lines of one page.
RECURSIVE BillRecordsOfLines(_)
BillRecordsOfLines(ls) ==
    IF ls = <<>> THEN <<>>
    ELSE BillRecordsOfLine(Head(ls)) \o BillRecordsOfLines(Tail(ls))

RECURSIVE EstimateRecordsOfLines(_)
EstimateRecordsOfLines(ls) ==
    IF ls = <<>> THEN <<>>
    ELSE EstimateRecordsOfLine(Head(ls)) \o EstimateRecordsOfLines(Tail(ls))

\* A document is the sequence of its pages' texts (page.get_text()).
RECURSIVE extract_from_bill_pdf(_)
extract_from_bill_pdf(d) ==
    IF d = <<>> THEN <<>>
    ELSE BillRecordsOfLines(SplitLines(Head(d))) \o extract_from_bill_pdf(Tail(d))

RECURSIVE extract_from_estimate_pdf(_)
extract_from_estimate_pdf(d) ==
    IF d = <<>> THEN <<>>
    ELSE EstimateRecordsOfLines(SplitLines(Head(d))) \o extract_from_estimate_pdf(Tail(d))


(***************************************************************************)
(* safe_comparison                                                         *)
(***************************************************************************)
\* Code point order of the characters a part number is made of.
CharOrder == <<"-">> \o DigitChars \o UpperChars

CharRank(c) == CHOOSE i \in 1..Len(CharOrder) : CharOrder[i] = c

\* a < b for Python strings.
RECURSIVE StrLess(_, _)
StrLess(a, b) ==
    IF b = <<>> THEN FALSE
    ELSE IF a = <<>> THEN TRUE
    ELSE IF Head(a) # Head(b) THEN CharRank(Head(a)) < CharRank(Head(b))
    ELSE StrLess(Tail(a), Tail(b))

RECURSIVE SortKeys(_)
SortKeys(S) ==
    IF S = {} THEN <<>>
    ELSE LET m == CHOOSE x \in S : \A y \in S : x = y \/ StrLess(x, y)
         IN  <<m>> \o SortKeys(S \ {m})

\* The values of the 'Part Number' column.
KeysOf(df) == {df[i].PartNumber : i \in 1..Len(df)}

RowsOfKey(df, k) == SelectSeq(df, LAMBDA r : r.PartNumber = k)

\* Series.fillna(0)
FillNa0(x) == IF x = NaN THEN 0 ELSE x

\* One row of merged_df, after the two fillna(0).
MergedRow(k, desc_bill, amount_bill, desc_estimate, amount_estimate, ind) ==
    [PartNumber |-> k,
     Description_bill |-> desc_bill,
     Amount_bill |-> FillNa0(amount_bill),
     Description_estimate |-> desc_estimate,
     Amount_estimate |-> FillNa0(amount_estimate),
     merge |-> ind]

\* The rows an outer merge on the index holds for key k: every pair of a bill
\* row and an estimate row of that key, or the rows of the one side that has it.
RECURSIVE PairRows(_, _, _)
PairRows(k, bs, es) ==
    IF bs = <<>> THEN <<>>
    ELSE [j \in 1..Len(es) |->
            MergedRow(k, Head(bs).Description, Head(bs).Amount,
                      es[j].Description, es[j].Amount, "both")]
         \o PairRows(k, Tail(bs), es)

KeyRows(k, bill, estimate) ==
    LET bs == RowsOfKey(bill, k)
        es == RowsOfKey(estimate, k)
    IN  IF bs # <<>> /\ es # <<>> THEN PairRows(k, bs, es)
        ELSE IF bs # <<>>
        THEN [i \in 1..Len(bs) |->
                MergedRow(k, bs[i].Description, bs[i].Amount, NaNText, NaN, "left_only")]
        ELSE [j \in 1..Len(es) |->
                MergedRow(k, NaNText, NaN, es[j].Description, es[j].Amount, "right_only")]

RECURSIVE MergeKeys(_, _, _)
MergeKeys(keys, bill, estimate) ==
    IF keys = <<>> THEN <<>>
    ELSE KeyRows(Head(keys), bill, estimate) \o MergeKeys(Tail(keys), bill, estimate)

\* bill_df.merge(estimate_df, how='outer', left_index=True, right_index=True,
\* indicator=True), keys in sorted order, then the fillna(0) of both amounts.
merged_df(estimate, bill) ==
    MergeKeys(SortKeys(KeysOf(bill) \cup KeysOf(estimate)), bill, estimate)

\* Mutation: the comparison admits equal amounts.
increased_mask_ge(row) == row.Amount_bill >= row.Amount_estimate /\ row.merge = "both"

\* Mutation: the test of the merge indicator is dropped.
increased_mask_any(row) == row.Amount_bill > row.Amount_estimate

increased_mask(row) == row.Amount_bill > row.Amount_estimate /\ row.merge = "both"

reduced_mask(row) == row.Amount_bill < row.Amount_estimate /\ row.merge = "both"

new_mask(row) == row.merge = "left_only"

removed_mask(row) == row.merge = "right_only"

\* The column selections and renamings that make a bucket out of merged rows.
BothColumns(rows) ==
    [i \in 1..Len(rows) |->
        [PartNumber |-> rows[i].PartNumber,
         Description |-> rows[i].Description_bill,
         BillAmount |-> rows[i].Amount_bill,
         EstimateAmount |-> rows[i].Amount_estimate]]

NewColumns(rows) ==
    [i \in 1..Len(rows) |->
        [PartNumber |-> rows[i].PartNumber,
         Description |-> rows[i].Description_bill,
         BillAmount |-> rows[i].Amount_bill]]

RemovedColumns(rows) ==
    [i \in 1..Len(rows) |->
        [PartNumber |-> rows[i].PartNumber,
         Description |-> rows[i].Description_estimate,
         EstimateAmount |-> rows[i].Amount_estimate]]

\* df.copy().rename(columns={'Amount': 'Amount_bill'})
RenameAmountBill(df) ==
    [i \in 1..Len(df) |->
        [PartNumber |-> df[i].PartNumber,
         Description |-> df[i].Description,
         Amount_bill |-> df[i].Amount]]

\* df.copy().rename(columns={'Amount': 'Amount_estimate'})
RenameAmountEstimate(df) ==
    [i \in 1..Len(df) |->
        [PartNumber |-> df[i].PartNumber,
         Description |-> df[i].Description,
         Amount_estimate |-> df[i].Amount]]

EmptyResults == [increased |-> <<>>, reduced |-> <<>>, new |-> <<>>, removed |-> <<>>]

safe_comparison(estimate, bill) ==
    IF estimate = <<>> /\ bill = <<>> THEN EmptyResults
    ELSE IF estimate = <<>> THEN [EmptyResults EXCEPT !.new = RenameAmountBill(bill)]
    ELSE IF bill = <<>> THEN [EmptyResults EXCEPT !.removed = RenameAmountEstimate(estimate)]
    ELSE LET m == merged_df(estimate, bill)
         IN  [increased |-> BothColumns(SelectSeq(m, increased_mask)),
              reduced |-> BothColumns(SelectSeq(m, reduced_mask)),
              new |-> NewColumns(SelectSeq(m, new_mask)),
              removed |-> RemovedColumns(SelectSeq(m, removed_mask))]


(***************************************************************************)
(* Specification SpecCompare: safe_comparison on bounded record            *)
(* collections                                                             *)
(***************************************************************************)
\* Longest record collection given to safe_comparison.
MaxRows == 2

P1 == <<"P", "1">>

P2 == <<"P", "2">>

LAMP == <<"L", "A", "M", "P">>

PartNumberValues == {P1, P2}

DescriptionValues == {<<>>, LAMP}

\* 75.00 and 75.005
AmountValues == {75000, 75005}

RecordValues ==
    [PartNumber : PartNumberValues, Description : DescriptionValues, Amount : AmountValues]

RECURSIVE SeqsUpTo(_, _)
SeqsUpTo(S, n) ==
    IF n = 0 THEN {<<>>}
    ELSE LET shorter == SeqsUpTo(S, n - 1)
         IN  shorter \cup {Append(q, x) : q \in {r \in shorter : Len(r) = n - 1}, x \in S}

\* The variables a specification does not use.
MainIdle ==
    /\ estimate_file = <<>>
    /\ bill_file = <<>>
    /\ estimate_raw_text = <<>>
    /\ bill_raw_text = <<>>
    /\ temp_files = {}
    /\ open_docs = {}
    /\ messages = <<>>
    /\ displayed = <<>>
    /\ exported = <<>>

CallIdle ==
    /\ doc = <<>>
    /\ doc_type = ""
    /\ parts = <<>>
    /\ raw_text = <<>>

InitCompare ==
    /\ pc = "compare"
    /\ estimate_df \in SeqsUpTo(RecordValues, MaxRows)
    /\ bill_df \in SeqsUpTo(RecordValues, MaxRows)
    /\ comparison_result = EmptyResults
    /\ MainIdle
    /\ CallIdle

\* comparison_result = safe_comparison(estimate_df, bill_df)
Compare ==
    /\ pc = "compare"
    /\ comparison_result' = safe_comparison(estimate_df, bill_df)
    /\ pc' = "compared"
    /\ UNCHANGED <<doc, doc_type, parts, raw_text, estimate_file, bill_file, estimate_df,
                   bill_df, estimate_raw_text, bill_raw_text, temp_files, open_docs,
                   messages, displayed, exported>>

NextCompare == Compare

SpecCompare == InitCompare /\ [][NextCompare]_vars


(***************************************************************************)
(* Properties of safe_comparison (SpecCompare)                             *)
(***************************************************************************)
BucketNames == {"increased", "reduced", "new", "removed"}

Compared == pc = "compared"

Indices(df) == 1..Len(df)

\* Number of rows of df whose Part Number is k.
CountKey(df, k) == Cardinality({i \in Indices(df) : df[i].PartNumber = k})

\* Number of results, over the four buckets, whose Part Number is k.
ResultCount(res, k) ==
    CountKey(res.increased, k) + CountKey(res.reduced, k)
        + CountKey(res.new, k) + CountKey(res.removed, k)

\* Pairs of a bill occurrence and an estimate occurrence of k with different amounts.
DifferingPairs(k) ==
    {<<i, j>> \in Indices(bill_df) \X Indices(estimate_df) :
        /\ bill_df[i].PartNumber = k
        /\ estimate_df[j].PartNumber = k
        /\ bill_df[i].Amount # estimate_df[j].Amount}

\* The bill amount and the estimate amount a result row carries (NaN for a side
\* the row has no column for).
BillAmountOf(r) ==
    IF "BillAmount" \in DOMAIN r THEN r.BillAmount
    ELSE IF "Amount_bill" \in DOMAIN r THEN r.Amount_bill
    ELSE NaN

EstimateAmountOf(r) ==
    IF "EstimateAmount" \in DOMAIN r THEN r.EstimateAmount
    ELSE IF "Amount_estimate" \in DOMAIN r THEN r.Amount_estimate
    ELSE NaN

ResultId(r) == <<r.PartNumber, BillAmountOf(r), EstimateAmountOf(r)>>

BucketIds(res, name) == {ResultId(res[name][i]) : i \in Indices(res[name])}

C2_StatusFollowsRules ==
    Compared =>
        LET res == comparison_result
            both == KeysOf(estimate_df) \cap KeysOf(bill_df)
        IN  /\ \A a \in BucketNames : \A b \in BucketNames \ {a} :
                    BucketIds(res, a) \cap BucketIds(res, b) = {}
            /\ \A i \in Indices(res.increased) :
                    /\ res.increased[i].PartNumber \in both
                    /\ BillAmountOf(res.increased[i]) > EstimateAmountOf(res.increased[i])
            /\ \A i \in Indices(res.reduced) :
                    /\ res.reduced[i].PartNumber \in both
                    /\ BillAmountOf(res.reduced[i]) < EstimateAmountOf(res.reduced[i])
            /\ \A i \in Indices(res.new) :
                    res.new[i].PartNumber \in KeysOf(bill_df) \ KeysOf(estimate_df)
            /\ \A i \in Indices(res.removed) :
                    res.removed[i].PartNumber \in KeysOf(estimate_df) \ KeysOf(bill_df)
            /\ \A i \in Indices(bill_df) :
                    LET b == bill_df[i]
                    IN  IF b.PartNumber \notin KeysOf(estimate_df)
                        THEN \E n \in Indices(res.new) :
                                /\ res.new[n].PartNumber = b.PartNumber
                                /\ BillAmountOf(res.new[n]) = b.Amount
                        ELSE \A j \in Indices(estimate_df) :
                                LET e == estimate_df[j]
                                    id == <<b.PartNumber, b.Amount, e.Amount>>
                                IN  e.PartNumber = b.PartNumber =>
                                        /\ b.Amount > e.Amount => id \in BucketIds(res, "increased")
                                        /\ b.Amount < e.Amount => id \in BucketIds(res, "reduced")
            /\ \A j \in Indices(estimate_df) :
                    LET e == estimate_df[j]
                    IN  e.PartNumber \notin KeysOf(bill_df) =>
                            \E n \in Indices(res.removed) :
                                /\ res.removed[n].PartNumber = e.PartNumber
                                /\ EstimateAmountOf(res.removed[n]) = e.Amount

\* A comparison that fills the increased bucket and the new bucket.
C2_Witness ==
    /\ Compared
    /\ comparison_result.increased # <<>>
    /\ comparison_result.new # <<>>

AbsDiff(x, y) == IF x >= y THEN x - y ELSE y - x

\* The amounts differ by no more than 0.01 currency units (10 thousandths).
WithinEpsilon(x, y) == AbsDiff(x, y) <= 10

\* C3: a Part Number on both sides whose amounts differ by no more than 0.01
\* is Same: it is in neither the increased nor the reduced bucket.
C3_WithinEpsilonIsSame ==
    Compared =>
        \A i \in Indices(bill_df) : \A j \in Indices(estimate_df) :
            LET b == bill_df[i]
                e == estimate_df[j]
                id == <<b.PartNumber, b.Amount, e.Amount>>
            IN  (b.PartNumber = e.PartNumber /\ WithinEpsilon(b.Amount, e.Amount)) =>
                    /\ id \notin BucketIds(comparison_result, "increased")
                    /\ id \notin BucketIds(comparison_result, "reduced")

\* The first occurrence of every Part Number, in input order.
FirstOccurrences(df) ==
    LET first == {i \in Indices(df) : \A j \in 1..(i - 1) : df[j].PartNumber # df[i].PartNumber}
        pick[i \in 0..Len(df)] ==
            IF i = 0 THEN <<>>
            ELSE IF i \in first THEN Append(pick[i - 1], df[i]) ELSE pick[i - 1]
    IN  pick[Len(df)]

HasDuplicate(df, k) == CountKey(df, k) > 1

\* C4: where a Part Number occurs more than once on one side, the first
\* occurrence alone represents that side: the output holds a single result for
\* the key, the one computed from the first occurrences.
C4_FirstOccurrenceWins ==
    Compared =>
        LET firsts == safe_comparison(FirstOccurrences(estimate_df), FirstOccurrences(bill_df))
        IN  \A k \in PartNumberValues :
                (HasDuplicate(estimate_df, k) \/ HasDuplicate(bill_df, k)) =>
                    /\ ResultCount(comparison_result, k) <= 1
                    /\ \A name \in BucketNames :
                            RowsOfKey(comparison_result[name], k) = RowsOfKey(firsts[name], k)

\* C5: the Description of a result for a Part Number on both sides is the bill
\* description when that is not empty, otherwise the estimate description
\* (which may be empty).
C5_DescriptionResolution ==
    Compared =>
        \A name \in {"increased", "reduced"} :
            \A n \in Indices(comparison_result[name]) :
                LET r == comparison_result[name][n]
                IN  \E i \in Indices(bill_df) : \E j \in Indices(estimate_df) :
                        LET b == bill_df[i]
                            e == estimate_df[j]
                        IN  /\ b.PartNumber = r.PartNumber
                            /\ e.PartNumber = r.PartNumber
                            /\ b.Amount = r.BillAmount
                            /\ e.Amount = r.EstimateAmount
                            /\ r.Description
                                 = IF b.Description # <<>> THEN b.Description ELSE e.Description


(***************************************************************************)
(* Specification SpecExtract: the two extractors on bounded documents      *)
(***************************************************************************)
\* Most lines of a document.
MaxLines == 2

\* Tokens of the example lines quoted in the extractors' comments.
SerialTok == <<"1">>

PartTok == <<"3", "5", "3", "2", "1", "M", "7", "4", "L", "0", "1">>

TotalTok == <<"T", "O", "T", "A", "L">>

UnitTok == <<"U", "N", "I", "T", ",">>

HeadlampTok == <<"H", "E", "A", "D", "L", "A", "M", "P">>

LhTok == <<"L", "H">>

SubTok == <<"S", "u", "b">>

TotalWordTok == <<"T", "o", "t", "a", "l">>

RateTok == <<"2", "3", "4", "7", ".", "4", "5">>

QtyTok == <<"1", ".", "0", "0", "0">>

ZeroDecTok == <<"0", ".", "0", "0">>

TaxableTok == <<"1", "1", "7", "3", ".", "7", "3">>

MrpTok == <<"6", "0", "5", "5">>

ZeroTok == <<"0">>

OneTok == <<"1">>

MrpDecTok == <<"6", ",", "0", "5", "5", ".", "0", "0">>

GstTok == <<"1", "8", "%">>

ReplaceTok == <<"R", "e", "p", "l", "a", "c", "e">>

RepairTok == <<"R", "e", "p", "a", "i", "r">>

AllowTok == <<"A", "l", "l", "o", "w">>

\* Serial number, part number and description (none, one with a comma, one
\* with a summary word); a serial number and a summary word where the part
\* number stands; a part number with no serial number before it.
LineHeads ==
    {<<SerialTok, PartTok>>,
     <<SerialTok, PartTok, UnitTok, HeadlampTok, LhTok>>,
     <<SerialTok, PartTok, SubTok, TotalWordTok>>,
     <<SerialTok, TotalTok>>,
     <<PartTok>>}

\* Bill columns (Rate, Qty, Tax Paid Amount, Taxable Amount, GST %), with a zero
\* Taxable Amount and with a column missing; estimate columns (MRP,
\* Depreciation %, Quantity Total, Claimed Value, Approved Amount, service
\* type), with a zero Approved Amount and with decimal amounts.
LineEndings ==
    {<<RateTok, QtyTok, ZeroDecTok, TaxableTok, GstTok>>,
     <<RateTok, QtyTok, ZeroDecTok, ZeroDecTok, GstTok>>,
     <<RateTok, QtyTok, TaxableTok, GstTok>>,
     <<MrpTok, ZeroTok, OneTok, MrpTok, MrpTok, ReplaceTok>>,
     <<MrpTok, ZeroTok, OneTok, ZeroTok, ZeroTok, ReplaceTok>>,
     <<MrpDecTok, ZeroTok, OneTok, MrpDecTok, MrpDecTok, RepairTok, AllowTok>>}

LineValues == {Join(h \o e) : h \in LineHeads, e \in LineEndings}

\* One page holding all the lines, or one page per line.
DocumentsOf(ls) ==
    {<<JoinLines(ls)>>} \cup (IF Len(ls) > 1 THEN {ls} ELSE {})

DocumentValues == UNION {DocumentsOf(ls) : ls \in SeqsUpTo(LineValues, MaxLines)}

InitExtract ==
    /\ pc = "extract"
    /\ doc \in DocumentValues
    /\ doc_type = ""
    /\ parts = <<>>
    /\ raw_text = <<>>
    /\ estimate_df = <<>>
    /\ bill_df = <<>>
    /\ comparison_result = EmptyResults
    /\ MainIdle

\* parts = extract_from_bill_pdf(doc)
ExtractBill ==
    /\ pc = "extract"
    /\ doc_type' = "bill"
    /\ parts' = extract_from_bill_pdf(doc)
    /\ pc' = "extracted"
    /\ UNCHANGED <<doc, raw_text, estimate_file, bill_file, estimate_df, bill_df,
                   estimate_raw_text, bill_raw_text, comparison_result, temp_files,
                   open_docs, messages, displayed, exported>>

\* parts = extract_from_estimate_pdf(doc)
ExtractEstimate ==
    /\ pc = "extract"
    /\ doc_type' = "estimate"
    /\ parts' = extract_from_estimate_pdf(doc)
    /\ pc' = "extracted"
    /\ UNCHANGED <<doc, raw_text, estimate_file, bill_file, estimate_df, bill_df,
                   estimate_raw_text, bill_raw_text, comparison_result, temp_files,
                   open_docs, messages, displayed, exported>>

NextExtract == ExtractBill \/ ExtractEstimate

SpecExtract == InitExtract /\ [][NextExtract]_vars

(***************************************************************************)
(* Properties of the extractors (SpecExtract)                              *)
(***************************************************************************)
Extracted == pc = "extracted"

\* C6: every record the extractors emit has Amount > 0; a line whose target
\* amount is zero or unparseable emits no record.
C6_AmountPositive ==
    Extracted => \A i \in Indices(parts) : parts[i].Amount > 0

\* The stoplist terms the specification names.
StopTerms ==
    {<<"t", "o", "t", "a", "l">>,
     <<"t", "a", "x">>,
     <<"s", "u", "b", "t", "o", "t", "a", "l">>,
     <<"s", "i", "g", "n", "a", "t", "o", "r", "y">>,
     <<"p", "o", "l", "i", "c", "y">>}

LowerText(s) == [i \in 1..Len(s) |-> Lower(s[i])]

\* The line contains a stoplist term, whatever the case of its letters.
HasStopTerm(line) ==
    \E t \in StopTerms : \E p \in 1..Len(line) : StartsWithAt(LowerText(line), p, t)

\* The document without its lines that contain a stoplist term.
WithoutStopLines(d) ==
    [i \in 1..Len(d) |->
        JoinLines(SelectSeq(SplitLines(d[i]), LAMBDA l : ~HasStopTerm(l)))]

ExtractorOf(dtype, d) ==
    IF dtype = "bill" THEN extract_from_bill_pdf(d) ELSE extract_from_estimate_pdf(d)

\* C7: no record comes from a line that contains a stoplist term: the records
\* are those of the document without such lines.
C7_NoRecordFromStopLine ==
    Extracted => parts = ExtractorOf(doc_type, WithoutStopLines(doc))


\* amount_match.start(): the leftmost index of rest_of_line at which the
\* extractor's amount_pattern matches, where the numeric columns begin; 0 when
\* it matches nowhere.
BillAmountStart(s) ==
    LET hits == {p \in 1..Len(s) : IsNumChar(s[p]) /\ BillAmountAt(s, p).matched}
    IN  IF hits = {} THEN 0 ELSE Min(hits)

EstimateAmountStart(s) ==
    LET hits == {p \in 1..Len(s) : IsNumChar(s[p]) /\ EstimateAmountAt(s, p).matched}
    IN  IF hits = {} THEN 0 ELSE Min(hits)

AmountStartOf(dtype, s) ==
    IF dtype = "bill" THEN BillAmountStart(s) ELSE EstimateAmountStart(s)

\* The text between the part number and the first numeric column, trimmed.
DescriptionSpan(dtype, rest_of_line) ==
    Strip(SubSeq(rest_of_line, 1, AmountStartOf(dtype, rest_of_line) - 1))

LineRecordsOf(dtype, line) ==
    IF dtype = "bill" THEN BillRecordsOfLine(line) ELSE EstimateRecordsOfLine(line)

\* The lines of all the pages of a document.
LinesOf(d) == UNION {Range(SplitLines(d[i])) : i \in 1..Len(d)}

\* C11: the Description of the record a line emits is the whole text between
\* the part number and the first numeric column of the line, trimmed, also
\* when that text holds commas or digits.
C11_DescriptionIsSpan ==
    Extracted =>
        \A line \in LinesOf(doc) :
            \A i \in Indices(LineRecordsOf(doc_type, line)) :
                LineRecordsOf(doc_type, line)[i].Description
                    = DescriptionSpan(doc_type, Strip(line_pattern(line).rest_of_line))

(***************************************************************************)
(* safe_extract_parts                                                      *)
(***************************************************************************)
\* Where an exception is raised inside the try block: nowhere; in
\* NamedTemporaryFile(); in tmp.write(pdf_file.read()); in fitz.open(); in a
\* page.get_text() of the raw text loop; inside the extractor.
Faults == {"none", "tempfile", "write", "open", "get_text", "extract"}

ValidDocTypes == {"estimate", "bill"}

\* raw_text: every page's text followed by a line break.
RECURSIVE RawTextOf(_)
RawTextOf(pages) ==
    IF pages = <<>> THEN <<>>
    ELSE Head(pages) \o <<NewLine>> \o RawTextOf(Tail(pages))

Message(kind, text) == [kind |-> kind, text |-> text]

\* One call.  fault says where an exception is raised and, for "get_text", at
\* the page at which; unlink_fails, whether os.unlink raises OSError; finalized,
\* whether a document handle that was not closed has been closed by its
\* finalizer when the call returns.  The result holds the returned pair (df,
\* raw_text), the st.error calls, and what the call leaves behind: temp_left,
\* the temporary file still on disk; doc_left, the document handle still open.
safe_extract_parts(pdf_file, dtype, fault, at, unlink_fails, finalized) ==
    LET created == fault # "tempfile"
        temp_path_set == fault \notin {"tempfile", "write"}
        opened == temp_path_set /\ fault # "open"
        text == IF ~opened THEN <<>>
                ELSE IF fault = "get_text" THEN RawTextOf(SubSeq(pdf_file, 1, at - 1))
                ELSE RawTextOf(pdf_file)
        dispatched == opened /\ fault # "get_text"
        invalid == dispatched /\ dtype \notin ValidDocTypes
        raised == fault # "none" /\ ~invalid
        closed == dispatched /\ ~invalid /\ ~raised
        records == IF ~closed THEN <<>>
                   ELSE IF dtype = "estimate" THEN extract_from_estimate_pdf(pdf_file)
                   ELSE extract_from_bill_pdf(pdf_file)
    IN  [df |-> records,
         raw_text |-> text,
         errors |-> IF invalid
                    THEN <<Message("error", <<"Invalid document type specified for extraction.">>)>>
                    ELSE IF raised
                    THEN <<Message("error", <<"PDF Processing Error for", dtype>>)>>
                    ELSE <<>>,
         temp_left |-> created /\ (~temp_path_set \/ unlink_fails),
         doc_left |-> opened /\ ~closed /\ ~finalized]

\* The choices of one call that can be told apart: a page index only for a
\* failing get_text, a failing unlink only when a path was stored, a finalizer
\* only when a handle was left unclosed, a failing extractor only when one runs.
CallChoices(pdf_file, dtype) ==
    {c \in [fault : Faults, at : 1..Len(pdf_file), unlink_fails : BOOLEAN, finalized : BOOLEAN] :
        /\ c.fault # "get_text" => c.at = 1
        /\ c.fault \in {"tempfile", "write"} => ~c.unlink_fails
        /\ c.fault \in {"tempfile", "write", "open"} => ~c.finalized
        /\ (c.fault = "none" /\ dtype \in ValidDocTypes) => ~c.finalized
        /\ c.fault = "extract" => dtype \in ValidDocTypes}

CallWith(pdf_file, dtype, c) ==
    safe_extract_parts(pdf_file, dtype, c.fault, c.at, c.unlink_fails, c.finalized)

(***************************************************************************)
(* format_dataframe, create_excel_download                                 *)
(***************************************************************************)
\* The decimal digits of n.
RECURSIVE DigitsOf(_)
DigitsOf(n) ==
    IF n < 10 THEN <<DigitChars[n + 1]>>
    ELSE Append(DigitsOf(n \div 10), DigitChars[(n % 10) + 1])

\* Digits with a comma before every group of three from the right.
RECURSIVE GroupThousands(_)
GroupThousands(ds) ==
    IF Len(ds) <= 3 THEN ds
    ELSE GroupThousands(SubSeq(ds, 1, Len(ds) - 3)) \o <<",">> \o SubSeq(ds, Len(ds) - 2, Len(ds))

\* Amounts ending in 5 thousandths whose float lies above the tie, so that
\* rounding to two decimals goes up (6055.005 -> '6,055.01'); the float of the
\* others lies below it (1173.735 -> '1,173.73', 75.005 -> '75.00').
TiesRoundingUp == {6055005}

\* round(x, 2) as the format does it, in hundredths.
RoundToCents(x) ==
    IF x % 10 > 5 \/ (x % 10 = 5 /\ x \in TiesRoundingUp) THEN x \div 10 + 1 ELSE x \div 10

\* f"{x:,.2f}"
FormatAmount(x) ==
    LET cents == RoundToCents(x)
    IN  GroupThousands(DigitsOf(cents \div 100))
            \o <<".", DigitChars[((cents % 100) \div 10) + 1], DigitChars[(cents % 10) + 1]>>

\* The columns of numeric dtype in the frames safe_comparison returns.
NumericColumns == {"BillAmount", "EstimateAmount", "Amount_bill", "Amount_estimate"}

\* format_dataframe(df) on a frame whose amount columns are numeric: the frame
\* it returns, which is the frame it was given, written in place.
format_dataframe(df) ==
    [i \in 1..Len(df) |->
        [f \in DOMAIN df[i] |->
            IF f \in NumericColumns THEN FormatAmount(df[i][f]) ELSE df[i][f]]]

TabsKeys == <<"increased", "reduced", "new", "removed">>

Capitalize(name) ==
    IF name = "increased" THEN "Increased"
    ELSE IF name = "reduced" THEN "Reduced"
    ELSE IF name = "new" THEN "New"
    ELSE "Removed"

\* The sheets create_excel_download writes: one per bucket that is not empty,
\* holding df.reset_index().
SheetsOf(res) ==
    LET keep == SelectSeq(TabsKeys, LAMBDA k : res[k] # <<>>)
    IN  [i \in 1..Len(keep) |-> [sheet |-> Capitalize(keep[i]), rows |-> res[keep[i]]]]

(***************************************************************************)
(* Specification SpecParts: one call of safe_extract_parts                 *)
(***************************************************************************)
PartBTok == <<"6", "9", "1", "0", "0", "M", "7", "4", "L", "3", "0">>

PartCTok == <<"8", "4", "7", "0", "2", "M", "7", "4", "L", "0", "0">>

IncreasedTok == <<"6", ",", "0", "5", "5", ".", "0", "0", "5">>

TieDownTok == <<"1", "1", "7", "3", ".", "7", "3", "5">>

SameTok == <<"6", "0", "5", "5", ".", "0", "0">>

EstimateLineA == Join(<<SerialTok, PartTok, UnitTok, HeadlampTok, LhTok,
                        MrpTok, ZeroTok, OneTok, MrpTok, MrpTok, ReplaceTok>>)

EstimateLineB == Join(<<SerialTok, PartBTok,
                        MrpDecTok, ZeroTok, OneTok, MrpDecTok, MrpDecTok, RepairTok, AllowTok>>)

BillLineA == Join(<<SerialTok, PartTok, UnitTok, HeadlampTok, LhTok,
                    RateTok, QtyTok, ZeroDecTok, TaxableTok, GstTok>>)

BillLineB == Join(<<SerialTok, PartBTok, RateTok, QtyTok, ZeroDecTok, IncreasedTok, GstTok>>)

BillLineC == Join(<<SerialTok, PartCTok, RateTok, QtyTok, ZeroDecTok, TieDownTok, GstTok>>)

BillLineSame == Join(<<SerialTok, PartTok, RateTok, QtyTok, ZeroDecTok, SameTok, GstTok>>)

NoiseLine == Join(<<TotalTok, TaxableTok>>)

\* An estimate of two parts on one page.
EstimateDoc == <<JoinLines(<<EstimateLineA, EstimateLineB>>)>>

\* A bill of three parts on two pages.
BillDoc == <<JoinLines(<<BillLineA, BillLineB>>), BillLineC>>

\* A bill of one part, at the estimate's amount.
SameBillDoc == <<BillLineSame>>

\* A document without any line item.
NoiseDoc == <<NoiseLine>>

UploadValues == {EstimateDoc, BillDoc, SameBillDoc, NoiseDoc}

InitParts ==
    /\ pc = "call"
    /\ doc \in UploadValues
    /\ doc_type \in ValidDocTypes \cup {"invoice"}
    /\ parts = <<>>
    /\ raw_text = <<>>
    /\ estimate_df = <<>>
    /\ bill_df = <<>>
    /\ comparison_result = EmptyResults
    /\ MainIdle

\* parts, raw_text = safe_extract_parts(doc, doc_type)
SafeExtractParts ==
    /\ pc = "call"
    /\ \E c \in CallChoices(doc, doc_type) :
        \E r \in {CallWith(doc, doc_type, c)} :
            /\ parts' = r.df
            /\ raw_text' = r.raw_text
            /\ messages' = messages \o r.errors
            /\ temp_files' = IF r.temp_left THEN temp_files \cup {doc_type} ELSE temp_files
            /\ open_docs' = IF r.doc_left THEN open_docs \cup {doc_type} ELSE open_docs
    /\ pc' = "returned"
    /\ UNCHANGED <<doc, doc_type, estimate_file, bill_file, estimate_df, bill_df,
                   estimate_raw_text, bill_raw_text, comparison_result, displayed, exported>>

NextParts == SafeExtractParts

SpecParts == InitParts /\ [][NextParts]_vars

\* C8: when safe_extract_parts has returned, on whichever path, the temporary
\* file is gone and the document handle is closed.
C8_ResourcesReleased ==
    pc = "returned" => temp_files = {} /\ open_docs = {}

(***************************************************************************)
(* Specification SpecMain: one click on "Compare Documents"                *)
(***************************************************************************)
FileValues == {<<>>} \cup {<<d>> : d \in UploadValues}

FailedToExtract(name) ==
    Message("error", <<"Failed to extract any valid part data from the", name>>)

InitMain ==
    /\ pc = "idle"
    /\ estimate_file \in FileValues
    /\ bill_file \in FileValues
    /\ estimate_df = <<>>
    /\ bill_df = <<>>
    /\ estimate_raw_text = <<>>
    /\ bill_raw_text = <<>>
    /\ comparison_result = EmptyResults
    /\ temp_files = {}
    /\ open_docs = {}
    /\ messages = <<>>
    /\ displayed = <<>>
    /\ exported = <<>>
    /\ CallIdle

\* if st.button(...): if estimate_file is None or bill_file is None: warning, return
Click ==
    /\ pc = "idle"
    /\ IF estimate_file = <<>> \/ bill_file = <<>>
       THEN /\ messages' = Append(messages, Message("warning", <<"Please upload both">>))
            /\ pc' = "done"
       ELSE /\ messages' = messages
            /\ pc' = "estimate"
    /\ UNCHANGED <<doc, doc_type, parts, raw_text, estimate_file, bill_file, estimate_df,
                   bill_df, estimate_raw_text, bill_raw_text, comparison_result, temp_files,
                   open_docs, displayed, exported>>

\* estimate_df, estimate_raw_text = safe_extract_parts(estimate_file, 'estimate')
\* if estimate_df.empty: st.error(...)
MainExtractEstimate ==
    /\ pc = "estimate"
    /\ \E c \in CallChoices(estimate_file[1], "estimate") :
        \E r \in {CallWith(estimate_file[1], "estimate", c)} :
            /\ estimate_df' = r.df
            /\ estimate_raw_text' = r.raw_text
            /\ messages' = messages \o r.errors
                    \o (IF r.df = <<>> THEN <<FailedToExtract("Estimate")>> ELSE <<>>)
            /\ temp_files' = IF r.temp_left THEN temp_files \cup {"estimate"} ELSE temp_files
            /\ open_docs' = IF r.doc_left THEN open_docs \cup {"estimate"} ELSE open_docs
    /\ pc' = "bill"
    /\ UNCHANGED <<doc, doc_type, parts, raw_text, estimate_file, bill_file, bill_df,
                   bill_raw_text, comparison_result, displayed, exported>>

\* A bill step that drops the estimate's records when the bill call fails.
MainExtractBill_clearing ==
    /\ pc = "bill"
    /\ \E c \in CallChoices(bill_file[1], "bill") :
        \E r \in {CallWith(bill_file[1], "bill", c)} :
            /\ bill_df' = r.df
            /\ bill_raw_text' = r.raw_text
            /\ estimate_df' = IF r.errors # <<>> THEN <<>> ELSE estimate_df
            /\ messages' = messages \o r.errors
                    \o (IF r.df = <<>> THEN <<FailedToExtract("Bill")>> ELSE <<>>)
            /\ temp_files' = IF r.temp_left THEN temp_files \cup {"bill"} ELSE temp_files
            /\ open_docs' = IF r.doc_left THEN open_docs \cup {"bill"} ELSE open_docs
    /\ pc' = "compare"
    /\ UNCHANGED <<doc, doc_type, parts, raw_text, estimate_file, bill_file,
                   estimate_raw_text, comparison_result, displayed, exported>>

\* bill_df, bill_raw_text = safe_extract_parts(bill_file, 'bill')
\* if bill_df.empty: st.error(...)
MainExtractBill ==
    /\ pc = "bill"
    /\ \E c \in CallChoices(bill_file[1], "bill") :
        \E r \in {CallWith(bill_file[1], "bill", c)} :
            /\ bill_df' = r.df
            /\ bill_raw_text' = r.raw_text
            /\ messages' = messages \o r.errors
                    \o (IF r.df = <<>> THEN <<FailedToExtract("Bill")>> ELSE <<>>)
            /\ temp_files' = IF r.temp_left THEN temp_files \cup {"bill"} ELSE temp_files
            /\ open_docs' = IF r.doc_left THEN open_docs \cup {"bill"} ELSE open_docs
    /\ pc' = "compare"
    /\ UNCHANGED <<doc, doc_type, parts, raw_text, estimate_file, bill_file, estimate_df,
                   estimate_raw_text, comparison_result, displayed, exported>>

\* if not estimate_df.empty and not bill_df.empty: safe_comparison, success
\* else: warning
MainCompare ==
    /\ pc = "compare"
    /\ IF estimate_df # <<>> /\ bill_df # <<>>
       THEN /\ comparison_result' = safe_comparison(estimate_df, bill_df)
            /\ messages' = Append(messages, Message("success", <<"Comparison completed successfully!">>))
            /\ pc' = "tabs"
       ELSE /\ comparison_result' = comparison_result
            /\ messages' = Append(messages, Message("warning", <<"Comparison could not be performed">>))
            /\ pc' = "done"
    /\ UNCHANGED <<doc, doc_type, parts, raw_text, estimate_file, bill_file, estimate_df,
                   bill_df, estimate_raw_text, bill_raw_text, temp_files, open_docs,
                   displayed, exported>>

\* The tab of each bucket: st.dataframe(format_dataframe(df)) unless df.empty,
\* st.info otherwise.  df is the frame held in comparison_result.
DisplayTabs ==
    /\ pc = "tabs"
    /\ comparison_result' =
            [k \in DOMAIN comparison_result |->
                IF comparison_result[k] # <<>> THEN format_dataframe(comparison_result[k])
                ELSE comparison_result[k]]
    /\ LET shown == SelectSeq(TabsKeys, LAMBDA k : comparison_result[k] # <<>>)
           none == SelectSeq(TabsKeys, LAMBDA k : comparison_result[k] = <<>>)
       IN  /\ displayed' = [i \in 1..Len(shown) |-> format_dataframe(comparison_result[shown[i]])]
           /\ messages' = messages \o [i \in 1..Len(none) |-> Message("info", <<"No parts found", none[i]>>)]
    /\ pc' = "export"
    /\ UNCHANGED <<doc, doc_type, parts, raw_text, estimate_file, bill_file, estimate_df,
                   bill_df, estimate_raw_text, bill_raw_text, temp_files, open_docs, exported>>

\* download_link = create_excel_download(comparison_result); the writer may raise.
Export ==
    /\ pc = "export"
    /\ \E raises \in BOOLEAN :
        \E sheets \in {SheetsOf(comparison_result)} :
            /\ raises => sheets # <<>>
            /\ exported' = IF raises THEN <<>> ELSE sheets
            /\ messages' = messages
                    \o (IF raises THEN <<Message("error", <<"Excel Generation Error">>)>> ELSE <<>>)
                    \o (IF raises \/ sheets = <<>>
                        THEN <<Message("info", <<"No data available to generate an Excel report.">>)>>
                        ELSE <<>>)
    /\ pc' = "done"
    /\ UNCHANGED <<doc, doc_type, parts, raw_text, estimate_file, bill_file, estimate_df,
                   bill_df, estimate_raw_text, bill_raw_text, comparison_result, temp_files,
                   open_docs, displayed>>

NextMain ==
    \/ Click
    \/ MainExtractEstimate
    \/ MainExtractBill
    \/ MainCompare
    \/ DisplayTabs
    \/ Export

SpecMain == InitMain /\ [][NextMain]_vars

(***************************************************************************)
(* Properties of main                                                      *)
(***************************************************************************)
ProcessingError(dtype) == Message("error", <<"PDF Processing Error for", dtype>>)

InMessages(m) == \E i \in 1..Len(messages) : messages[i] = m

\* No failing call on the same upload returns the pair (df, text).
TellsApart(pdf_file, dtype, df, text) ==
    \A c \in CallChoices(pdf_file, dtype) :
        LET r == CallWith(pdf_file, dtype, c)
        IN  r.errors # <<>> => <<r.df, r.raw_text>> # <<df, text>>

\* The estimate call has returned normally with zero records.
EstimateEmptyExtraction ==
    /\ pc \in {"bill", "compare", "done"}
    /\ estimate_file # <<>> /\ bill_file # <<>>
    /\ estimate_df = <<>>
    /\ ~InMessages(ProcessingError("estimate"))

\* The bill call has returned normally with zero records.
BillEmptyExtraction ==
    /\ pc \in {"compare", "done"}
    /\ estimate_file # <<>> /\ bill_file # <<>>
    /\ bill_df = <<>>
    /\ ~InMessages(ProcessingError("bill"))

\* C9: a call that returns normally with zero records returns a pair that no
\* failing call on the same document returns, and main reports that the
\* document gave no part data and goes on.
C9_EmptyExtractionDistinct ==
    /\ EstimateEmptyExtraction =>
            /\ InMessages(FailedToExtract("Estimate"))
            /\ TellsApart(estimate_file[1], "estimate", estimate_df, estimate_raw_text)
    /\ BillEmptyExtraction =>
            /\ InMessages(FailedToExtract("Bill"))
            /\ TellsApart(bill_file[1], "bill", bill_df, bill_raw_text)

\* safe_comparison has produced the buckets of this run.
BucketsProduced ==
    /\ pc \in {"tabs", "export", "done"}
    /\ estimate_df # <<>> /\ bill_df # <<>>

\* Equality of two cells, either of which holds a number or a text.
SameCell(x, y) == ToString(x) = ToString(y)

SameFrame(a, b) ==
    /\ Len(a) = Len(b)
    /\ \A i \in 1..Len(a) :
        /\ DOMAIN a[i] = DOMAIN b[i]
        /\ \A f \in DOMAIN a[i] : SameCell(a[i][f], b[i][f])

SameBuckets(r1, r2) == \A k \in BucketNames : SameFrame(r1[k], r2[k])

SameSheets(s1, s2) ==
    /\ Len(s1) = Len(s2)
    /\ \A i \in 1..Len(s1) : s1[i].sheet = s2[i].sheet /\ SameFrame(s1[i].rows, s2[i].rows)

\* C10: after safe_comparison, comparison_result stays what safe_comparison
\* returned, through the tabs and the export, and the sheets written are the
\* buckets safe_comparison returned.
C10_BucketsImmutable ==
    BucketsProduced =>
        /\ SameBuckets(comparison_result, safe_comparison(estimate_df, bill_df))
        /\ (pc = "done" /\ exported # <<>>) =>
                SameSheets(exported, SheetsOf(safe_comparison(estimate_df, bill_df)))

\* The estimate call has run without raising; likewise the bill call.
EstimateCallSucceeded ==
    /\ pc \in {"bill", "compare", "tabs", "export"}
    /\ ~InMessages(ProcessingError("estimate"))

BillCallSucceeded ==
    /\ pc \in {"compare", "tabs", "export"}
    /\ ~InMessages(ProcessingError("bill"))

\* One step of main, as the join of the two extractions requires it.
JoinStep ==
    /\ pc' = "tabs" =>
            /\ pc = "compare"
            /\ estimate_df = extract_from_estimate_pdf(estimate_file[1])
            /\ bill_df = extract_from_bill_pdf(bill_file[1])
            /\ comparison_result' = safe_comparison(estimate_df, bill_df)
    /\ pc \in {"idle", "estimate", "bill"} => comparison_result' = EmptyResults
    /\ pc = "bill" => estimate_df' = estimate_df
    /\ pc = "estimate" => bill_df' = bill_df
    /\ EstimateCallSucceeded => estimate_df = extract_from_estimate_pdf(estimate_file[1])
    /\ BillCallSucceeded => bill_df = extract_from_bill_pdf(bill_file[1])

\* C12: safe_comparison runs only in the step that follows both
\* safe_extract_parts calls, on the records they returned, and a call that
\* fails leaves the records of the other document as they were extracted.
C12_ComparisonAfterBothExtractions == [][JoinStep]_vars

\* The bill call has failed and the estimate's records are held.
C12_Witness ==
    /\ pc = "compare"
    /\ InMessages(ProcessingError("bill"))
    /\ estimate_df # <<>>
    /\ estimate_df = extract_from_estimate_pdf(estimate_file[1])


=============================================================================
